---- MODULE Spec2Model ----
(***************************************************************************)
(* A model of app.py: the music player, the two history repositories       *)
(* (SQLite and MySQL), the file logger, the MusicService orchestrator and  *)
(* the three user actions of the Streamlit script.                         *)
(*                                                                         *)
(* Text is a sequence of tokens [c, n]: c is the literal text of the token *)
(* (or the name of a rendering pattern) and n its numeric value (0 for     *)
(* literal text).  The line break is the token whose c is "\n".  Accented  *)
(* letters of the source's literals are written without the accent.        *)
(*                                                                         *)
(* Time is counted in ticks, TicksPerSec of them to the second; a clock    *)
(* reading (datetime.datetime.now()) never goes back and may repeat.       *)
(***************************************************************************)
EXTENDS Integers, Sequences, FiniteSets, TLC

VARIABLES
    logExists,               \* os.path.exists("app_logs.txt")
    logFile,                 \* contents of app_logs.txt, a token sequence
    logged,                  \* the FileLogger.log calls made so far: <<now, message>>
    sqliteRows,              \* table history of playback_history.db, in insertion order
    mysqlRows,               \* table history of the MySQL database, in insertion order
    clock,                   \* the last reading of datetime.datetime.now(), in ticks
    fractional,              \* how the MySQL server reduces a fraction of a second
    history_implementation,  \* "NotStarted", "Sql", "MySql" or "None" (app.py 327-335)
    conn,                    \* MySqlHistoryRepository.conn is set
    player_selection,        \* "Local" or "Spotify" (app.py 338-341)
    action,                  \* the last operation run and its inputs
    outcome,                 \* how it ended: "normal", "reported" or "raised"
    ui,                      \* what it displayed: a sequence of [level, text]
    effects,                 \* what it wrote, in order: [e, text]
    history,                 \* what get_history returned, when it was the last call
    myHistory,               \* the same of the MySQL backend in the side-by-side runs
    calls                    \* the last three repository calls of the side-by-side runs

vars == <<logExists, logFile, logged, sqliteRows, mysqlRows, clock, fractional,
          history_implementation, conn, player_selection, action, outcome, ui,
          effects, history, myHistory, calls>>

(***************************************************************************)
(* Bounds                                                                  *)
(***************************************************************************)
MaxClock == 3
TicksPerSec == 2
MaxRows == 2
MaxLogLines == 5
MaxLogCalls == 3

(***************************************************************************)
(* Text                                                                    *)
(***************************************************************************)
Txt(s) == [c |-> s, n |-> 0]
NL == Txt("\n")

Sec(now) == now \div TicksPerSec
Frac(now) == now % TicksPerSec

\* str(datetime): "YYYY-MM-DD HH:MM:SS", then ".ffffff" unless the fraction is 0
DatetimeStr(now) ==
    <<[c |-> "YYYY-MM-DD HH:MM:SS", n |-> Sec(now)]>>
    \o (IF Frac(now) # 0 THEN <<[c |-> ".ffffff", n |-> Frac(now)]>> ELSE <<>>)

\* datetime.isoformat(): "YYYY-MM-DDTHH:MM:SS", then ".ffffff" unless the fraction is 0
IsoFormat(now) ==
    <<[c |-> "YYYY-MM-DDTHH:MM:SS", n |-> Sec(now)]>>
    \o (IF Frac(now) # 0 THEN <<[c |-> ".ffffff", n |-> Frac(now)]>> ELSE <<>>)

\* datetime.strftime('%Y-%m-%d %H:%M:%S') of a DATETIME value (whole seconds)
Strftime(sec) == <<[c |-> "YYYY-MM-DD HH:MM:SS", n |-> sec]>>

\* The collating key of an ISO text: the fields have fixed width, and a text
\* without fraction is a proper prefix of the texts of the same second.
IsoKey(text) == text[1].n * TicksPerSec + (IF Len(text) > 1 THEN text[2].n ELSE 0)

\* What a DATETIME column (no fractional digits) keeps of a value with a
\* fraction: the server rounds, or truncates under TIME_TRUNCATE_FRACTIONAL.
ToDatetime(now) ==
    IF fractional = "round" /\ 2 * Frac(now) >= TicksPerSec
    THEN Sec(now) + 1
    ELSE Sec(now)

HasLineBreak(text) == \E i \in 1..Len(text) : text[i] = NL

RECURSIVE Lines(_)
\* the lines of a text, each without its line break
Lines(text) ==
    IF text = <<>> THEN <<>>
    ELSE IF \E i \in 1..Len(text) : text[i] = NL
         THEN LET k == CHOOSE i \in 1..Len(text) :
                           text[i] = NL /\ \A j \in 1..(i - 1) : text[j] # NL
              IN <<SubSeq(text, 1, k - 1)>> \o Lines(SubSeq(text, k + 1, Len(text)))
         ELSE <<text>>

(***************************************************************************)
(* What is displayed                                                       *)
(***************************************************************************)
Show(level, text) == [level |-> level, text |-> text]
Levels(shown) == {shown[i].level : i \in 1..Len(shown)}

(***************************************************************************)
(* Exceptions: str(e) of what the calls raise                              *)
(***************************************************************************)
NoException == <<>>
AttributeError(method) ==
    <<Txt("'NoneType' object has no attribute '"), Txt(method), Txt("'")>>
OperationalError == <<Txt("database is locked")>>
MediaError == <<Txt("Error opening media file")>>

(***************************************************************************)
(* 1. The players                                                          *)
(***************************************************************************)
\* LocalMusicPlayerWithMetadata.songs: the registered titles
songs ==
    { <<Txt("The Last Point")>>, <<Txt("Running Night")>>, <<Txt("Retro Loungue")>>,
      <<Txt("Vlog Beat Background")>>, <<Txt("Tell Me What")>> }

\* the titles the runs play: one registered, one not
Titles == { <<Txt("The Last Point")>>, <<Txt("Bohemian Rhapsody")>> }

SpotifyPlayer_play(song_title) ==
    [ui |-> <<Show("info", "Reproduciendo en Spotify"),
              Show("warning", "el servicio de Spotify no esta disponible")>>,
     raised |-> FALSE, exc |-> NoException, status |-> "played"]

\* play raising instead of warning when the song is not found
LocalMusicPlayerWithMetadata_play_raising(song_title, audio_exists, art_exists, media_ok) ==
    IF song_title \in songs /\ audio_exists /\ media_ok
    THEN [ui |-> <<Show("info", "Reproduciendo")>>,
          raised |-> FALSE, exc |-> NoException, status |-> "played"]
    ELSE [ui |-> <<>>, raised |-> TRUE, exc |-> MediaError, status |-> "raised"]

\* audio_exists, art_exists: os.path.exists of the two files;
\* media_ok: st.image and st.audio load the files without raising
LocalMusicPlayerWithMetadata_play(song_title, audio_exists, art_exists, media_ok) ==
    IF song_title \in songs /\ audio_exists
    THEN IF media_ok
         THEN [ui |-> <<Show("info", "Reproduciendo")>>
                      \o (IF art_exists
                          THEN <<Show("image", "album")>>
                          ELSE <<Show("warning", "Imagen del album no encontrada"),
                                 Show("image", "placeholder")>>)
                      \o <<Show("audio", "audio")>>,
               raised |-> FALSE, exc |-> NoException, status |-> "played"]
         ELSE [ui |-> <<Show("info", "Reproduciendo")>>,
               raised |-> TRUE, exc |-> MediaError, status |-> "raised"]
    ELSE [ui |-> <<Show("warning", "La cancion no fue encontrada o el archivo no existe")>>,
          raised |-> FALSE, exc |-> NoException, status |-> "warned"]

(***************************************************************************)
(* 2. The history repositories                                             *)
(* A row is [song_title, timestamp]; the id column is never selected.      *)
(***************************************************************************)
Perms(n) == {p \in [1..n -> 1..n] : \A i, j \in 1..n : p[i] = p[j] => i = j}

\* SELECT ... ORDER BY timestamp DESC: every order of the rows that does not
\* increase in the key (keys[i] is the collating key of rows[i].timestamp);
\* rows of equal key come in an order SQL leaves open
OrderByTimestampDesc(rows, keys) ==
    { [i \in 1..Len(rows) |-> rows[p[i]]] : p \in
        { q \in Perms(Len(rows)) :
            \A i \in 1..(Len(rows) - 1) : keys[q[i]] >= keys[q[i + 1]] } }

Quoted(song_title) == <<Txt("'")>> \o song_title \o <<Txt("' - ")>>

\* ---- SqlHistoryRepository (SQLite): timestamp TEXT, the ISO text
SqlHistoryRepository_save_playback(rows, now, song_title, fails) ==
    IF fails
    THEN [rows |-> rows, raised |-> TRUE, exc |-> OperationalError, ui |-> <<>>,
          readClock |-> TRUE]
    ELSE [rows |-> Append(rows, [song_title |-> song_title, timestamp |-> IsoFormat(now)]),
          raised |-> FALSE, exc |-> NoException,
          ui |-> <<Show("success", "Historial de reproduccion guardado.")>>,
          readClock |-> TRUE]

SqlFormat(row) == Quoted(row.song_title) \o row.timestamp

\* the possible returns of get_history
SqlHistoryRepository_get_history(rows, fails) ==
    IF fails
    THEN {[result |-> <<>>, raised |-> TRUE, exc |-> OperationalError, ui |-> <<>>]}
    ELSE { [result |-> [i \in 1..Len(ordered) |-> SqlFormat(ordered[i])],
            raised |-> FALSE, exc |-> NoException, ui |-> <<>>] :
           ordered \in OrderByTimestampDesc(
               rows, [i \in 1..Len(rows) |-> IsoKey(rows[i].timestamp)]) }

\* clear_history leaving the rows in place
SqlHistoryRepository_clear_history_keeping(rows, fails) ==
    IF fails
    THEN [rows |-> rows, raised |-> TRUE, exc |-> OperationalError, ui |-> <<>>]
    ELSE [rows |-> rows, raised |-> FALSE, exc |-> NoException,
          ui |-> <<Show("success", "Historial de SQLite eliminado exitosamente.")>>]

SqlHistoryRepository_clear_history(rows, fails) ==
    IF fails
    THEN [rows |-> rows, raised |-> TRUE, exc |-> OperationalError, ui |-> <<>>]
    ELSE [rows |-> <<>>, raised |-> FALSE, exc |-> NoException,
          ui |-> <<Show("success", "Historial de SQLite eliminado exitosamente.")>>]

\* ---- MySqlHistoryRepository: timestamp DATETIME, whole seconds
\* __init__: the connection made or not; nothing is raised either way
MySqlHistoryRepository_init(connects) ==
    IF connects
    THEN [conn |-> TRUE, raised |-> FALSE,
          ui |-> <<Show("success", "Tabla 'history' creada exitosamente o ya existia."),
                   Show("success", "Conexion a MySQL exitosa.")>>]
    ELSE [conn |-> FALSE, raised |-> FALSE,
          ui |-> <<Show("error", "Error al conectar a MySQL")>>]

\* save_playback inserting the row although the statement failed
MySqlHistoryRepository_save_playback_inserting(cn, rows, now, song_title, fails) ==
    IF ~cn
    THEN [rows |-> rows, raised |-> FALSE, exc |-> NoException,
          ui |-> <<Show("error", "No se pudo guardar el historial: no hay conexion")>>,
          readClock |-> FALSE]
    ELSE [rows |-> Append(rows, [song_title |-> song_title, timestamp |-> ToDatetime(now)]),
          raised |-> FALSE, exc |-> NoException,
          ui |-> <<Show("success", "Historial de reproduccion guardado en MySQL.")>>,
          readClock |-> TRUE]

MySqlHistoryRepository_save_playback(cn, rows, now, song_title, fails) ==
    IF ~cn
    THEN [rows |-> rows, raised |-> FALSE, exc |-> NoException,
          ui |-> <<Show("error", "No se pudo guardar el historial: no hay conexion")>>,
          readClock |-> FALSE]
    ELSE IF fails
    THEN [rows |-> rows, raised |-> FALSE, exc |-> NoException,
          ui |-> <<Show("error", "Error al guardar el historial")>>,
          readClock |-> TRUE]
    ELSE [rows |-> Append(rows, [song_title |-> song_title, timestamp |-> ToDatetime(now)]),
          raised |-> FALSE, exc |-> NoException,
          ui |-> <<Show("success", "Historial de reproduccion guardado en MySQL.")>>,
          readClock |-> TRUE]

MySqlFormat(row) == Quoted(row.song_title) \o Strftime(row.timestamp)

DatetimeKey(sec) == sec

\* the possible returns of get_history
MySqlHistoryRepository_get_history(cn, rows, fails) ==
    IF ~cn
    THEN {[result |-> <<>>, raised |-> FALSE, exc |-> NoException, ui |-> <<>>]}
    ELSE IF fails
    THEN {[result |-> <<>>, raised |-> FALSE, exc |-> NoException,
           ui |-> <<Show("error", "Error al obtener el historial")>>]}
    ELSE { [result |-> [i \in 1..Len(ordered) |-> MySqlFormat(ordered[i])],
            raised |-> FALSE, exc |-> NoException, ui |-> <<>>] :
           ordered \in OrderByTimestampDesc(
               rows, [i \in 1..Len(rows) |-> DatetimeKey(rows[i].timestamp)]) }

MySqlHistoryRepository_clear_history(cn, rows, fails) ==
    IF ~cn
    THEN [rows |-> rows, raised |-> FALSE, exc |-> NoException,
          ui |-> <<Show("error", "No se pudo eliminar el historial: no hay conexion")>>]
    ELSE IF fails
    THEN [rows |-> rows, raised |-> FALSE, exc |-> NoException,
          ui |-> <<Show("error", "Error al eliminar el historial")>>]
    ELSE [rows |-> <<>>, raised |-> FALSE, exc |-> NoException,
          ui |-> <<Show("success", "Historial de MySQL eliminado exitosamente.")>>]

(***************************************************************************)
(* 3. The logger                                                           *)
(***************************************************************************)
Banner == <<Txt("--- Log de la Aplicacion de Musica ---")>>

\* __init__ writing the banner whether or not the file exists
FileLogger_init_truncating(exists, file) == Banner \o <<NL>>

\* __init__: the file's contents afterwards
FileLogger_init(exists, file) == IF ~exists THEN Banner \o <<NL>> ELSE file

LogEntry(now, message) == <<Txt("[")>> \o DatetimeStr(now) \o <<Txt("] ")>> \o message

\* log opening the file with mode "w"
FileLogger_log_overwriting(file, now, message) == LogEntry(now, message) \o <<NL>>

\* log: the file's contents afterwards (opened with mode "a")
FileLogger_log(file, now, message) == file \o LogEntry(now, message) \o <<NL>>

(***************************************************************************)
(* MusicService                                                            *)
(* A world w is what a call reads and writes: [logFile, logged, sqliteRows,*)
(* mysqlRows, clock, ui, effects].                                         *)
(***************************************************************************)
World ==
    [logFile |-> logFile, logged |-> logged, sqliteRows |-> sqliteRows,
     mysqlRows |-> mysqlRows, clock |-> clock, ui |-> <<>>, effects |-> <<>>]

\* self.logger.log(message), the clock read d ticks after its last reading
LoggerLog(w, d, message) ==
    [w EXCEPT !.clock = w.clock + d,
              !.logFile = FileLogger_log(w.logFile, w.clock + d, message),
              !.logged = Append(w.logged, [now |-> w.clock + d, message |-> message]),
              !.ui = Append(w.ui, Show("info", "Log guardado en 'app_logs.txt'")),
              !.effects = Append(w.effects, [e |-> "log", text |-> message])]

\* self.player.play(song_title)
PlayerPlay(player, song_title, audio_exists, art_exists, media_ok) ==
    IF player = "Local"
    THEN LocalMusicPlayerWithMetadata_play(song_title, audio_exists, art_exists, media_ok)
    ELSE SpotifyPlayer_play(song_title)

\* self.history_repo.save_playback(song_title): [w, raised, exc, status]
HistoryRepoSave(impl, cn, w, d, song_title, fails) ==
    IF impl = "None"
    THEN [w |-> w, raised |-> TRUE, exc |-> AttributeError("save_playback"),
          status |-> "raised"]
    ELSE LET r == IF impl = "Sql"
                  THEN SqlHistoryRepository_save_playback(
                           w.sqliteRows, w.clock + d, song_title, fails)
                  ELSE MySqlHistoryRepository_save_playback(
                           cn, w.mysqlRows, w.clock + d, song_title, fails)
             old == IF impl = "Sql" THEN w.sqliteRows ELSE w.mysqlRows
             inserted == Len(r.rows) > Len(old)
         IN [w |-> [w EXCEPT !.clock = IF r.readClock THEN w.clock + d ELSE w.clock,
                             !.sqliteRows = IF impl = "Sql" THEN r.rows ELSE @,
                             !.mysqlRows = IF impl = "MySql" THEN r.rows ELSE @,
                             !.ui = w.ui \o r.ui,
                             !.effects = IF inserted
                                         THEN Append(w.effects,
                                                     [e |-> "insert", text |-> song_title])
                                         ELSE w.effects],
             raised |-> r.raised, exc |-> r.exc,
             status |-> IF r.raised THEN "raised"
                        ELSE IF inserted THEN "persisted" ELSE "reported"]

StartMsg(song_title) == <<Txt("Iniciando la reproduccion de la cancion: ")>> \o song_title
DoneMsg(song_title) ==
    <<Txt("Reproduccion de '")>> \o song_title \o <<Txt("' completada y registrada.")>>
ErrorMsg(exc) == <<Txt("Error al reproducir la cancion: ")>> \o exc

\* the except branch of play_song
Except(w, d, exc) ==
    LET w3 == LoggerLog(w, d, ErrorMsg(exc))
    IN [w3 EXCEPT !.ui = Append(w3.ui, Show("error", "Ocurrio un error"))]

\* play_song logging the completion before the record is saved
play_song_completing_early(impl, cn, player, w, song_title, env) ==
    LET w1 == LoggerLog(w, env.d1, StartMsg(song_title))
        p == PlayerPlay(player, song_title, env.audio_exists, env.art_exists, env.media_ok)
        w2 == [w1 EXCEPT !.ui = w1.ui \o p.ui]
        w3 == LoggerLog(w2, env.d2, DoneMsg(song_title))
        s == HistoryRepoSave(impl, cn, w3, env.d3, song_title, env.save_fails)
    IN IF p.raised
       THEN [w |-> Except(w2, env.d3, p.exc), player |-> p.status, save |-> "skipped"]
       ELSE IF s.raised
       THEN [w |-> Except(s.w, env.d3, s.exc), player |-> p.status, save |-> s.status]
       ELSE [w |-> s.w, player |-> p.status, save |-> s.status]

\* play_song: [w, player, save], the world afterwards and how the two calls went
\* env: the clock's advance at each reading (d1, d2, d3), the files present,
\* and whether the media calls and the insert statement fail
play_song(impl, cn, player, w, song_title, env) ==
    LET w1 == LoggerLog(w, env.d1, StartMsg(song_title))
        p == PlayerPlay(player, song_title, env.audio_exists, env.art_exists, env.media_ok)
        w2 == [w1 EXCEPT !.ui = w1.ui \o p.ui]
        s == HistoryRepoSave(impl, cn, w2, env.d2, song_title, env.save_fails)
    IN IF p.raised
       THEN [w |-> Except(w2, env.d3, p.exc), player |-> p.status, save |-> "skipped"]
       ELSE IF s.raised
       THEN [w |-> Except(s.w, env.d3, s.exc), player |-> p.status, save |-> s.status]
       ELSE [w |-> LoggerLog(s.w, env.d3, DoneMsg(song_title)),
             player |-> p.status, save |-> s.status]

\* get_playback_history: the possible returns
get_playback_history(impl, cn, w, fails) ==
    IF impl = "None"
    THEN {[result |-> <<>>, raised |-> TRUE, exc |-> AttributeError("get_history"),
           ui |-> <<>>]}
    ELSE IF impl = "Sql"
    THEN SqlHistoryRepository_get_history(w.sqliteRows, fails)
    ELSE MySqlHistoryRepository_get_history(cn, w.mysqlRows, fails)

(***************************************************************************)
(* The script: its top (lines 315-347) and the user actions                *)
(***************************************************************************)
NoAction ==
    [name |-> "none", song_title |-> <<>>, fails |-> FALSE, audio_exists |-> FALSE,
     player |-> "none", save |-> "none"]

Outcome(raised, shown) ==
    IF raised THEN "raised"
    ELSE IF "error" \in Levels(shown) THEN "reported" ELSE "normal"

Init ==
    /\ logExists = FALSE
    /\ logFile = <<>>
    /\ logged = <<>>
    /\ sqliteRows = <<>>
    /\ mysqlRows = <<>>
    /\ clock = 0
    /\ fractional \in {"round", "truncate"}
    /\ history_implementation = "NotStarted"
    /\ conn = FALSE
    /\ player_selection = "Local"
    /\ action = NoAction
    /\ outcome = "normal"
    /\ ui = <<>>
    /\ effects = <<>>
    /\ history = <<>>
    /\ myHistory = <<>>
    /\ calls = <<>>

\* One run of the top of the script: FileLogger(), the sidebar's two choices,
\* the repository and the player built from them.
Startup ==
    \E db_selection \in {"SQLite", "MySQL"}, has_url \in BOOLEAN, connects \in BOOLEAN,
       player \in {"Local", "Spotify"} :
        LET my == MySqlHistoryRepository_init(connects)
        IN /\ logFile' = FileLogger_init(logExists, logFile)
           /\ logExists' = TRUE
           /\ player_selection' = player
           /\ IF db_selection = "MySQL"
              THEN IF has_url
                   THEN /\ history_implementation' = "MySql"
                        /\ conn' = my.conn
                        /\ ui' = my.ui
                   ELSE /\ history_implementation' = "None"
                        /\ conn' = FALSE
                        /\ ui' = <<Show("error", "No se encontro la URL de la base de datos")>>
              ELSE /\ history_implementation' = "Sql"
                   /\ conn' = FALSE
                   /\ ui' = <<>>
           /\ action' = [NoAction EXCEPT !.name = "startup"]
           /\ outcome' = Outcome(FALSE, ui')
           /\ effects' = <<>>
           /\ history' = <<>>
           /\ UNCHANGED <<logged, sqliteRows, mysqlRows, clock, fractional,
                          myHistory, calls>>

Started == history_implementation # "NotStarted"

\* The inputs that a call can tell apart: the files of a song matter to the
\* local player and for a registered title only, a failing statement to a
\* repository that has a connection only.
PlayerInputs(song_title) ==
    IF player_selection = "Local" /\ song_title \in songs THEN BOOLEAN ELSE {FALSE}
StoreInputs ==
    IF history_implementation = "Sql" \/ (history_implementation = "MySql" /\ conn)
    THEN BOOLEAN ELSE {FALSE}

\* tab1, the button "Reproducir": music_app.play_song(song_title), for any
\* title (the text input takes any, the select box the registered ones)
PlaySong ==
    /\ Started
    /\ Len(logged) + 3 <= MaxLogLines
    /\ Len(sqliteRows) < MaxRows
    /\ Len(mysqlRows) < MaxRows
    /\ \E song_title \in Titles, d1 \in 0..1, d2 \in 0..1, d3 \in 0..1 :
       \E audio_exists \in PlayerInputs(song_title), save_fails \in StoreInputs :
       \E art_exists \in (IF audio_exists THEN BOOLEAN ELSE {FALSE}),
          media_ok \in (IF audio_exists THEN BOOLEAN ELSE {TRUE}) :
        LET env == [d1 |-> d1, d2 |-> d2, d3 |-> d3, audio_exists |-> audio_exists,
                    art_exists |-> art_exists, media_ok |-> media_ok,
                    save_fails |-> save_fails]
            r == play_song(history_implementation, conn, player_selection, World,
                           song_title, env)
        IN /\ clock + d1 + d2 + d3 <= MaxClock
           /\ logFile' = r.w.logFile
           /\ logged' = r.w.logged
           /\ sqliteRows' = r.w.sqliteRows
           /\ mysqlRows' = r.w.mysqlRows
           /\ clock' = r.w.clock
           /\ ui' = r.w.ui
           /\ effects' = r.w.effects
           /\ action' = [name |-> "play_song", song_title |-> song_title,
                         fails |-> save_fails, audio_exists |-> audio_exists,
                         player |-> r.player, save |-> r.save]
           /\ outcome' = Outcome(FALSE, ui')
           /\ history' = <<>>
           /\ UNCHANGED <<logExists, fractional, history_implementation, conn,
                          player_selection, myHistory, calls>>

\* tab2 (lines 375-384): the history is fetched and shown
GetPlaybackHistory ==
    /\ Started
    /\ \E fails \in StoreInputs :
        \E r \in get_playback_history(history_implementation, conn, World, fails) :
           /\ history' = IF r.raised THEN history ELSE r.result
           /\ ui' = IF r.raised THEN r.ui
                    ELSE r.ui \o (IF r.result # <<>>
                                  THEN <<Show("success", "Historial cargado.")>>
                                  ELSE <<Show("warning",
                                              "Aun no has reproducido ninguna cancion.")>>)
           /\ outcome' = Outcome(r.raised, ui')
           /\ action' = [NoAction EXCEPT !.name = "get_playback_history", !.fails = fails]
           /\ effects' = <<>>
           /\ UNCHANGED <<logExists, logFile, logged, sqliteRows, mysqlRows, clock,
                          fractional, history_implementation, conn, player_selection,
                          myHistory, calls>>

\* tab3 (lines 397-401): the button "Eliminar todos los registros del historial"
ClearHistory ==
    /\ Started
    /\ \E fails \in StoreInputs :
        LET r == IF history_implementation = "Sql"
                 THEN SqlHistoryRepository_clear_history(sqliteRows, fails)
                 ELSE MySqlHistoryRepository_clear_history(conn, mysqlRows, fails)
        IN /\ IF history_implementation = "None"
              THEN /\ ui' = <<Show("warning", "No se pudo conectar a la base de datos.")>>
                   /\ outcome' = "normal"
                   /\ UNCHANGED <<sqliteRows, mysqlRows>>
              ELSE /\ ui' = r.ui
                   /\ outcome' = Outcome(r.raised, ui')
                   /\ sqliteRows' = IF history_implementation = "Sql"
                                    THEN r.rows ELSE sqliteRows
                   /\ mysqlRows' = IF history_implementation = "MySql"
                                   THEN r.rows ELSE mysqlRows
           /\ action' = [NoAction EXCEPT !.name = "clear_history", !.fails = fails]
           /\ effects' = <<>>
           /\ history' = <<>>
           /\ UNCHANGED <<logExists, logFile, logged, clock, fractional,
                          history_implementation, conn, player_selection,
                          myHistory, calls>>

Next == Startup \/ PlaySong \/ GetPlaybackHistory \/ ClearHistory

Spec == Init /\ [][Next]_vars

(***************************************************************************)
(* Properties of the script's runs (Spec)                                  *)
(***************************************************************************)
IsPrefix(a, b) == Len(a) <= Len(b) /\ SubSeq(b, 1, Len(a)) = a
Last(q) == q[Len(q)]

LogOf(message) == [e |-> "log", text |-> message]
InsertOf(song_title) == [e |-> "insert", text |-> song_title]
Exceptions == {AttributeError("save_playback"), OperationalError, MediaError}
IsErrorLog(ev) == \E exc \in Exceptions : ev = LogOf(ErrorMsg(exc))
IsDoneLog(ev) == \E t \in Titles : ev = LogOf(DoneMsg(t))

\* the table the wired repository writes
WiredRows == IF history_implementation = "Sql" THEN sqliteRows ELSE mysqlRows
\* the wired repository has a connection, so that only a failing statement stops a save
StoreWorks == history_implementation = "Sql" \/ (history_implementation = "MySql" /\ conn)

\* C1: a play_song(X) in which neither the player nor the store fails writes,
\* in this order and nothing else, the start log line for X, the record for X
\* and the completion log line for X; and in every play_song call whatever
\* record is inserted has exactly one start line before it and exactly one
\* completion line after it, both of that call.
C1_StartRecordCompletion ==
    action.name = "play_song" =>
        LET t == action.song_title
        IN /\ (StoreWorks /\ ~action.fails /\ action.player # "raised") =>
                  /\ effects = <<LogOf(StartMsg(t)), InsertOf(t), LogOf(DoneMsg(t))>>
                  /\ Last(WiredRows).song_title = t
                  /\ Len(logged) >= 2
                  /\ logged[Len(logged) - 1].message = StartMsg(t)
                  /\ Last(logged).message = DoneMsg(t)
           /\ \A i \in 1..Len(effects) :
                  effects[i].e = "insert" =>
                      /\ effects[i] = InsertOf(t)
                      /\ {j \in 1..(i - 1) : effects[j].e = "log"} = {i - 1}
                      /\ effects[i - 1] = LogOf(StartMsg(t))
                      /\ {j \in (i + 1)..Len(effects) : effects[j].e = "log"} = {i + 1}
                      /\ effects[i + 1] = LogOf(DoneMsg(t))

C1_Witness ==
    /\ action.name = "play_song"
    /\ StoreWorks /\ ~action.fails /\ action.player = "played"
    /\ Len(effects) = 3
    /\ effects[2].e = "insert"

\* C2 (as claimed): with either backend, the MySQL one without connection
\* included, a play_song(X) whose save fails writes a start log line and an
\* error log line, no completion log line, and no record for X.
C2_FailedSaveLogsError ==
    (/\ action.name = "play_song"
     /\ history_implementation \in {"Sql", "MySql"}
     /\ action.save \in {"raised", "reported"}) =>
        /\ Len(effects) = 2
        /\ effects[1] = LogOf(StartMsg(action.song_title))
        /\ IsErrorLog(effects[2])
        /\ \A i \in 1..Len(effects) : ~IsDoneLog(effects[i]) /\ effects[i].e # "insert"

\* C3 (as claimed): a MySqlHistoryRepository whose connection failed is built
\* without raising, and from then on save_playback, get_history and
\* clear_history each change no stored row, raise nothing and report an error.
NullStore == history_implementation = "MySql" /\ ~conn
C3_NullObjectReports ==
    [][(/\ NullStore'
        /\ \/ action'.name = "startup"
           \/ action'.name = "play_song" /\ action'.save # "skipped"
           \/ action'.name = "get_playback_history"
           \/ action'.name = "clear_history") =>
           /\ outcome' # "raised"
           /\ action'.name = "startup" \/ (mysqlRows' = mysqlRows /\ sqliteRows' = sqliteRows)
           /\ \E i \in 1..Len(ui') :
                  /\ ui'[i].level = "error"
                  /\ ui'[i].text # "Ocurrio un error"]_vars

\* C4 (as claimed): whatever the configuration and the actions, no exception
\* leaves a user action; stated here for the actions in which no statement of
\* the database fails, where the claim already does not hold.
C4_NoExceptionEscapes == ~action.fails => outcome # "raised"

\* C9: the local player, given a title that is not registered or whose audio
\* file is missing, shows a warning and returns; play_song then attempts the
\* save, and when the save succeeds the record is stored and the completion
\* line logged.
C9_MissingSongStillSaved ==
    (/\ action.name = "play_song"
     /\ player_selection = "Local"
     /\ (action.song_title \notin songs \/ ~action.audio_exists)) =>
        /\ action.player = "warned"
        /\ "warning" \in Levels(ui)
        /\ action.save # "skipped"
        /\ (StoreWorks /\ ~action.fails) =>
               /\ action.save = "persisted"
               /\ Last(WiredRows).song_title = action.song_title
               /\ Last(effects) = LogOf(DoneMsg(action.song_title))
               /\ Last(Lines(logFile)) =
                      LogEntry(Last(logged).now, DoneMsg(action.song_title))

C9_Witness ==
    /\ action.name = "play_song"
    /\ player_selection = "Local"
    /\ action.song_title \notin songs
    /\ action.save = "persisted"

\* C10: every step leaves the log as it was or longer, what was there kept as
\* a prefix; fetching and clearing the history leave the log alone; and every
\* step but clear_history keeps the rows there were, play_song adding at most
\* one.
C10_AppendOnly ==
    [][/\ IsPrefix(logFile, logFile')
       /\ action'.name \in {"get_playback_history", "clear_history"} => logFile' = logFile
       /\ action'.name # "clear_history" =>
              /\ IsPrefix(sqliteRows, sqliteRows')
              /\ IsPrefix(mysqlRows, mysqlRows')
              /\ Len(sqliteRows') + Len(mysqlRows') <= Len(sqliteRows) + Len(mysqlRows) + 1
       /\ action'.name # "play_song" =>
              /\ Len(sqliteRows') <= Len(sqliteRows)
              /\ Len(mysqlRows') <= Len(mysqlRows)]_vars

C10_Witness ==
    /\ action.name = "play_song"
    /\ Len(WiredRows) = 2
    /\ Len(Lines(logFile)) = 5

(***************************************************************************)
(* The two repositories side by side (SpecRepo): both built with a working *)
(* connection, the same calls made on both, with the same clock readings   *)
(* and the same failing statements.                                        *)
(***************************************************************************)
Remember(q, call) == IF Len(q) < 3 THEN Append(q, call) ELSE Append(Tail(q), call)

\* a call as remembered: its inputs, whether the tables held rows before it,
\* and whether each backend raised
Call(op, song_title, fails, sq, my) ==
    [op |-> op, song_title |-> song_title, fails |-> fails,
     nonempty |-> op = "clear" /\ (sqliteRows # <<>> \/ mysqlRows # <<>>),
     sqlRaised |-> sq.raised, myRaised |-> my.raised]

RepoSave ==
    /\ Len(sqliteRows) < MaxRows
    /\ Len(mysqlRows) < MaxRows
    /\ \E song_title \in Titles, d \in 0..1, fails \in BOOLEAN :
        LET sq == SqlHistoryRepository_save_playback(sqliteRows, clock + d, song_title, fails)
            my == MySqlHistoryRepository_save_playback(TRUE, mysqlRows, clock + d,
                                                       song_title, fails)
        IN /\ clock + d <= MaxClock
           /\ clock' = clock + d
           /\ sqliteRows' = sq.rows
           /\ mysqlRows' = my.rows
           /\ calls' = Remember(calls, Call("save", song_title, fails, sq, my))
           /\ ui' = sq.ui \o my.ui
           /\ history' = <<>>
           /\ myHistory' = <<>>
           /\ UNCHANGED <<logExists, logFile, logged, fractional, history_implementation,
                          conn, player_selection, action, outcome, effects>>

RepoGet ==
    \E fails \in BOOLEAN :
        \E sq \in SqlHistoryRepository_get_history(sqliteRows, fails),
           my \in MySqlHistoryRepository_get_history(TRUE, mysqlRows, fails) :
           /\ history' = sq.result
           /\ myHistory' = my.result
           /\ calls' = Remember(calls, Call("get", <<>>, fails, sq, my))
           /\ ui' = sq.ui \o my.ui
           /\ UNCHANGED <<logExists, logFile, logged, sqliteRows, mysqlRows, clock,
                          fractional, history_implementation, conn, player_selection,
                          action, outcome, effects>>

RepoClear ==
    \E fails \in BOOLEAN :
        LET sq == SqlHistoryRepository_clear_history(sqliteRows, fails)
            my == MySqlHistoryRepository_clear_history(TRUE, mysqlRows, fails)
        IN /\ sqliteRows' = sq.rows
           /\ mysqlRows' = my.rows
           /\ calls' = Remember(calls, Call("clear", <<>>, fails, sq, my))
           /\ ui' = sq.ui \o my.ui
           /\ history' = <<>>
           /\ myHistory' = <<>>
           /\ UNCHANGED <<logExists, logFile, logged, clock, fractional,
                          history_implementation, conn, player_selection, action,
                          outcome, effects>>

NextRepo == RepoSave \/ RepoGet \/ RepoClear

SpecRepo == Init /\ [][NextRepo]_vars

\* the last k calls, oldest first (<<>> when fewer were made)
Recent(k) == IF Len(calls) >= k THEN SubSeq(calls, Len(calls) - k + 1, Len(calls)) ELSE <<>>
Ok(call, op) == call.op = op /\ ~call.fails

\* C5 (as claimed): save_playback(t) followed at once by get_history() returns
\* a list that begins with the record just written, in both backends, also
\* when an earlier record has the same stored timestamp.
C5_SavedComesFirst ==
    LET r == Recent(2)
    IN (r # <<>> /\ Ok(r[1], "save") /\ Ok(r[2], "get")) =>
           /\ history # <<>> /\ history[1] = SqlFormat(Last(sqliteRows))
           /\ myHistory # <<>> /\ myHistory[1] = MySqlFormat(Last(mysqlRows))

\* C6: clear_history() followed by get_history() returns the empty list, and
\* clear_history(), save_playback(t), get_history() returns exactly the one
\* record for t: the table is still there to take the row.
C6_ClearThenEmpty ==
    /\ LET r == Recent(2)
       IN (r # <<>> /\ Ok(r[1], "clear") /\ Ok(r[2], "get")) =>
              history = <<>> /\ myHistory = <<>>
    /\ LET r == Recent(3)
       IN (r # <<>> /\ Ok(r[1], "clear") /\ Ok(r[2], "save") /\ Ok(r[3], "get")) =>
              /\ ~r[2].sqlRaised /\ ~r[2].myRaised
              /\ Len(sqliteRows) = 1 /\ sqliteRows[1].song_title = r[2].song_title
              /\ Len(mysqlRows) = 1 /\ mysqlRows[1].song_title = r[2].song_title
              /\ history = <<SqlFormat(sqliteRows[1])>>
              /\ myHistory = <<MySqlFormat(mysqlRows[1])>>

C6_Witness ==
    LET r == Recent(3)
    IN /\ r # <<>>
       /\ Ok(r[1], "clear") /\ r[1].nonempty /\ Ok(r[2], "save") /\ Ok(r[3], "get")
       /\ Len(history) = 1 /\ Len(myHistory) = 1

Messages ==
    { <<>>, <<Txt("m")>>, <<Txt("m"), NL, Txt("m")>>, ErrorMsg(OperationalError) }
    \cup {StartMsg(t) : t \in Titles}

LoggerConstruct ==
    /\ logFile' = FileLogger_init(logExists, logFile)
    /\ logExists' = TRUE
    /\ action' = [NoAction EXCEPT !.name = "FileLogger"]
    /\ UNCHANGED <<logged, sqliteRows, mysqlRows, clock, fractional,
                   history_implementation, conn, player_selection, outcome, ui,
                   effects, history, myHistory, calls>>

LoggerLogCall ==
    /\ logExists
    /\ Len(logged) < MaxLogCalls
    /\ \E message \in Messages, d \in 0..1 :
        LET w == LoggerLog(World, d, message)
        IN /\ clock + d <= MaxClock
           /\ logFile' = w.logFile
           /\ logged' = w.logged
           /\ clock' = w.clock
           /\ ui' = w.ui
           /\ action' = [NoAction EXCEPT !.name = "log"]
           /\ UNCHANGED <<logExists, sqliteRows, mysqlRows, fractional,
                          history_implementation, conn, player_selection, outcome,
                          effects, history, myHistory, calls>>

NextLogger == LoggerConstruct \/ LoggerLogCall

SpecLogger == Init /\ [][NextLogger]_vars

\* the file that N calls of log should leave: the banner, then one line a call
ExpectedLines ==
    <<Banner>> \o [i \in 1..Len(logged) |-> LogEntry(logged[i].now, logged[i].message)]

\* C7 (as claimed): whatever the messages, after N calls of log the file has
\* exactly N+1 lines, the banner and then the line of each call in call
\* order, and building FileLogger again adds none.
C7_OneLinePerCall == logExists => Lines(logFile) = ExpectedLines

\* C7 (amended): the same, for messages that contain no line break.
C7_OneLinePerCallNoBreak ==
    (logExists /\ \A i \in 1..Len(logged) : ~HasLineBreak(logged[i].message)) =>
        /\ Len(Lines(logFile)) = Len(logged) + 1
        /\ Lines(logFile) = ExpectedLines

C7_Witness ==
    /\ action.name = "FileLogger"
    /\ Len(logged) >= 2
    /\ \A i \in 1..Len(logged) : ~HasLineBreak(logged[i].message)
    /\ \E i \in 1..Len(logged) : logged[i].message = ErrorMsg(OperationalError)

====
